---- MODULE Spec2Model ----
(***************************************************************************)
(* Model of resultgroup.Group[T] (src/group.go, src/error.go).             *)
(*                                                                         *)
(* One main goroutine constructs a Group, launches units with Go and then  *)
(* calls Wait.  Every launched unit is a goroutine that runs its body f,   *)
(* reports through processResult (handleErrors, then appendResults) and    *)
(* finally runs the deferred wg.Done.  A running unit body may itself call *)
(* Go.  Taking the mutex, the guarded append of an error, the threshold     *)
(* check with its cancel, the append of results and the change of the      *)
(* WaitGroup counter are separate steps of a goroutine; a deferred Unlock  *)
(* is taken together with the last statement of its critical section.      *)
(***************************************************************************)
EXTENDS Integers, Sequences, FiniteSets, Bags, TLC

\* ---------------------------------------------------------------- bounds
MaxUnits == 2
MaxThreshold == 2

Units == 1..MaxUnits

\* The main goroutine, as a holder of the mutex and as a launcher of units.
Main == 0
\* sync.Mutex in its unlocked state.
Free == -1

\* Error values are numbers.  The nil error:
Nil == 0
\* The error of unit u's own making (err1, err2, err3 of the tests): every unit
\* has an error value of its own, so that a recorded error names its unit.
ErrOf(u) == u
\* ctx.Err() of a cancelled context, returned by a body that selects on
\* ctx.Done(); the same value for every unit.
Canceled == -1
\* A result element every unit may return, so that the results of different
\* units can hold equal elements.
Shared == 0
\* Result lists the body of unit u may return: none, or an element of its own
\* followed by the shared one.
ResultLists(u) == {<< >>, <<u, Shared>>}

\* ---------------------------------------------------------------- state
VARIABLES
    ctor,        \* how the Group was constructed, and with which argument
    threshold,   \* Group.threshold
    cancel,      \* Group.cancel # nil
    errs,        \* Group.errs
    results,     \* Group.results
    wg,          \* counter of Group.wg
    mutex,       \* holder of Group.mutex, or Free
    hCancels,    \* number of times handleErrors invoked g.cancel
    wCancels,    \* number of times Wait invoked g.cancel
    parentDone,  \* the parent context passed to WithErrorsThreshold is cancelled
    mainPc,      \* position of the main goroutine
    pc,          \* position of every unit goroutine
    ret,         \* what the body of every unit returned: [res, err]
    launched,    \* number of Go calls so far; units 1..launched are launched
    launcher,    \* for every unit, who called Go for it (Main or a unit)
    hOrder,      \* units in the order they acquired the mutex in handleErrors
    aOrder,      \* units in the order they acquired the mutex in appendResults
    waitResults, \* first value returned by Wait
    waitErr      \* second value returned by Wait

group == <<threshold, cancel, errs, results, wg, mutex>>
ctxVars == <<hCancels, wCancels, parentDone>>
waitVars == <<waitResults, waitErr>>
unitVars == <<pc, ret, launched, launcher>>
orderVars == <<hOrder, aOrder>>
vars == <<ctor, group, ctxVars, mainPc, unitVars, orderVars, waitVars>>

\* ------------------------------------------------------- error.go
\* The nil errorWithUnwrap: it wraps nothing and has no errs to read.
NilErr == [isNil |-> TRUE]

\* &multiError{errs: es}
multiError(es) == [isNil |-> FALSE, errs |-> es]

\* (*multiError).Unwrap: defined on a non-nil aggregate only; on the nil
\* error there is nothing to call it on.
Unwrap(me) == me.errs

\* ------------------------------------------------------- context
\* The derived context of WithErrorsThreshold is done when its cancel function
\* was invoked or when its parent is done.
CtxDone == hCancels + wCancels > 0 \/ parentDone

\* ------------------------------------------------------- construction
\* Group[T]{}: the zero value.
PlainGroup == [panicked |-> FALSE, cancel |-> FALSE, threshold |-> 0]

\* Variant of WithErrorsThreshold: only a negative threshold is rejected.
WithErrorsThresholdLax(t) ==
    IF t < 0
    THEN [panicked |-> TRUE, cancel |-> FALSE, threshold |-> 0]
    ELSE [panicked |-> FALSE, cancel |-> TRUE, threshold |-> t]

\* WithErrorsThreshold(ctx, t)
WithErrorsThreshold(t) ==
    IF t < 1
    THEN [panicked |-> TRUE, cancel |-> FALSE, threshold |-> 0]
    ELSE [panicked |-> FALSE, cancel |-> TRUE, threshold |-> t]

Constructions ==
    {[kind |-> "plain", arg |-> 0]}
        \cup {[kind |-> "threshold", arg |-> t] : t \in -1..MaxThreshold}

Construct(c) == IF c.kind = "plain" THEN PlainGroup ELSE WithErrorsThreshold(c.arg)

Init ==
    /\ ctor \in Constructions
    /\ threshold = Construct(ctor).threshold
    /\ cancel = Construct(ctor).cancel
    /\ mainPc = IF Construct(ctor).panicked THEN "panicked" ELSE "main"
    /\ errs = << >>
    /\ results = << >>
    /\ wg = 0
    /\ mutex = Free
    /\ hCancels = 0
    /\ wCancels = 0
    /\ parentDone = FALSE
    /\ pc = [u \in Units |-> "idle"]
    /\ ret = [u \in Units |-> [res |-> << >>, err |-> Nil]]
    /\ launched = 0
    /\ launcher = [u \in Units |-> Main]
    /\ hOrder = << >>
    /\ aOrder = << >>
    /\ waitResults = << >>
    /\ waitErr = NilErr

\* ------------------------------------------------------- Go
\* Variant of WgAdd: the counter is not incremented by Go.
WgAddNone(n) == n

\* g.wg.Add(1)
WgAdd(n) == n + 1

\* Variant of WgDone: the counter is not decremented when a unit ends.
WgDoneNone(n) == n

\* g.wg.Done()
WgDone(n) == n - 1

\* Go called by `by` (the main goroutine before Wait, or a running unit body):
\* the counter is incremented and the goroutine of the next unit is started.
Go(by) ==
    /\ launched < MaxUnits
    /\ \/ by = Main /\ mainPc = "main"
       \/ by \in Units /\ pc[by] = "f"
    /\ launched' = launched + 1
    /\ wg' = WgAdd(wg)
    /\ pc' = [pc EXCEPT ![launched + 1] = "f"]
    /\ launcher' = [launcher EXCEPT ![launched + 1] = by]
    /\ UNCHANGED <<ctor, threshold, cancel, errs, results, mutex, ctxVars,
                   mainPc, ret, orderVars, waitVars>>

\* Variant of processResult: appendResults is the else branch of the error
\* test, so that a unit with an error skips it.
processResultEither(err, from) ==
    IF from = "f"
    THEN (IF err # Nil THEN "handleErrors" ELSE "appendResults")
    ELSE "wgDone"

\* processResult, as the position its caller goes to next.  Entered from the
\* body ("f"), it calls handleErrors only for a non-nil error; when
\* handleErrors has returned, it goes on to appendResults.
processResult(err, from) ==
    IF from = "f" /\ err # Nil THEN "handleErrors" ELSE "appendResults"

\* Errors the body of a unit can return: nil, an error of its own, or ctx.Err()
\* once the derived context is done.
BodyErrors(u) ==
    {Nil, ErrOf(u)} \cup (IF cancel /\ CtxDone THEN {Canceled} ELSE {})

\* res, err := f()  followed by the call of processResult.
FReturn(u) ==
    /\ pc[u] = "f"
    /\ \E res \in ResultLists(u), err \in BodyErrors(u) :
          /\ ret' = [ret EXCEPT ![u] = [res |-> res, err |-> err]]
          /\ pc' = [pc EXCEPT ![u] = processResult(err, "f")]
    /\ UNCHANGED <<ctor, group, ctxVars, mainPc, launched, launcher,
                   orderVars, waitVars>>

\* ------------------------------------------------------- mutex
\* Variant of MutexLock: Lock does not wait for the holder to unlock.
MutexLockNoWait(m) == TRUE

\* g.mutex.Lock() returns only when the mutex is unlocked.
MutexLock(m) == m = Free

\* ------------------------------------------------------- handleErrors
\* g.mutex.Lock() in handleErrors
HandleErrorsLock(u) ==
    /\ pc[u] = "handleErrors"
    /\ MutexLock(mutex)
    /\ mutex' = u
    /\ hOrder' = Append(hOrder, u)
    /\ pc' = [pc EXCEPT ![u] = "hAppend"]
    /\ UNCHANGED <<ctor, threshold, cancel, errs, results, wg, ctxVars, mainPc,
                   ret, launched, launcher, aOrder, waitVars>>

\* Variant of BelowThreshold: the comparison is off by one.
AtOrBelowThreshold(es, t) == t = 0 \/ Len(es) <= t

\* Variant of BelowThreshold: the unlimited case threshold == 0 is forgotten.
BelowPositiveThreshold(es, t) == Len(es) < t

\* if g.threshold == 0 || len(g.errs) < g.threshold
BelowThreshold(es, t) == t = 0 \/ Len(es) < t

\* Variant of RecordError: the append is not guarded.
RecordEveryError(es, t, err) == Append(es, err)

\* the guarded append of handleErrors
RecordError(es, t, err) == IF BelowThreshold(es, t) THEN Append(es, err) ELSE es

HandleErrorsAppend(u) ==
    /\ pc[u] = "hAppend"
    /\ errs' = RecordError(errs, threshold, ret[u].err)
    /\ pc' = [pc EXCEPT ![u] = "hCancel"]
    /\ UNCHANGED <<ctor, threshold, cancel, results, wg, mutex, ctxVars, mainPc,
                   ret, launched, launcher, orderVars, waitVars>>

\* Variant of ThresholdReached: cancel only once the threshold is exceeded.
ThresholdExceeded(es, t, c) == Len(es) > t /\ c

\* Variant of ThresholdReached: cancel on any recorded error.
AnyErrorRecorded(es, t, c) == Len(es) >= 1 /\ c

\* if len(g.errs) == g.threshold { if g.cancel != nil {
ThresholdReached(es, t, c) == Len(es) = t /\ c

\* the threshold check of handleErrors with its g.cancel(), and the deferred
\* g.mutex.Unlock(); processResult goes on to appendResults
HandleErrorsCancel(u) ==
    /\ pc[u] = "hCancel"
    /\ hCancels' = IF ThresholdReached(errs, threshold, cancel)
                   THEN hCancels + 1 ELSE hCancels
    /\ mutex' = Free
    /\ pc' = [pc EXCEPT ![u] = processResult(ret[u].err, "handleErrors")]
    /\ UNCHANGED <<ctor, threshold, cancel, errs, results, wg, wCancels,
                   parentDone, mainPc, ret, launched, launcher, orderVars,
                   waitVars>>

\* ------------------------------------------------------- appendResults
\* g.mutex.Lock() in appendResults
AppendResultsLock(u) ==
    /\ pc[u] = "appendResults"
    /\ MutexLock(mutex)
    /\ mutex' = u
    /\ aOrder' = Append(aOrder, u)
    /\ pc' = [pc EXCEPT ![u] = "aAppend"]
    /\ UNCHANGED <<ctor, threshold, cancel, errs, results, wg, ctxVars, mainPc,
                   ret, launched, launcher, hOrder, waitVars>>

\* Variant of AppendAll: the unit's list is put in front.
PrependAll(rs, res) == res \o rs

\* Variant of AppendAll: the unit's list replaces the accumulated results.
AssignResults(rs, res) == res

\* append(g.results, res...)
AppendAll(rs, res) == rs \o res

\* the append of appendResults and its deferred g.mutex.Unlock()
AppendResultsAppend(u) ==
    /\ pc[u] = "aAppend"
    /\ results' = AppendAll(results, ret[u].res)
    /\ mutex' = Free
    /\ pc' = [pc EXCEPT ![u] = "wgDone"]
    /\ UNCHANGED <<ctor, threshold, cancel, errs, wg, ctxVars, mainPc,
                   ret, launched, launcher, orderVars, waitVars>>

\* the deferred g.wg.Done() of the goroutine started by Go
UnitDone(u) ==
    /\ pc[u] = "wgDone"
    /\ wg' = WgDone(wg)
    /\ pc' = [pc EXCEPT ![u] = "done"]
    /\ UNCHANGED <<ctor, threshold, cancel, errs, results, mutex, ctxVars, mainPc,
                   ret, launched, launcher, orderVars, waitVars>>

\* ------------------------------------------------------- Wait
\* The main goroutine calls Wait and blocks in g.wg.Wait().
WaitCall ==
    /\ mainPc = "main"
    /\ mainPc' = "wgWait"
    /\ UNCHANGED <<ctor, group, ctxVars, unitVars, orderVars, waitVars>>

\* Variant of WgWaitReturns: Wait returns with one unit still outstanding.
WgWaitReturnsEarly(n) == n <= 1

\* g.wg.Wait() returns when the counter is zero.
WgWaitReturns(n) == n = 0

WaitUnblock ==
    /\ mainPc = "wgWait"
    /\ WgWaitReturns(wg)
    /\ mainPc' = "wLock"
    /\ UNCHANGED <<ctor, group, ctxVars, unitVars, orderVars, waitVars>>

\* g.mutex.Lock() in Wait
WaitLock ==
    /\ mainPc = "wLock"
    /\ MutexLock(mutex)
    /\ mutex' = Main
    /\ mainPc' = "wCancel"
    /\ UNCHANGED <<ctor, threshold, cancel, errs, results, wg, ctxVars, unitVars,
                   orderVars, waitVars>>

\* Variant of WaitCancels: Wait does not invoke the cancel function.
WaitCancelsNever(c) == FALSE

\* if g.cancel != nil { g.cancel() }
WaitCancels(c) == c

WaitCancel ==
    /\ mainPc = "wCancel"
    /\ wCancels' = IF WaitCancels(cancel) THEN wCancels + 1 ELSE wCancels
    /\ mainPc' = "wReturn"
    /\ UNCHANGED <<ctor, group, hCancels, parentDone, unitVars, orderVars, waitVars>>

\* Variant of WaitError: Wait of a Group with a cancel function reports the
\* cancellation of its context as one more component.
WaitErrorWithCtxErr(es) ==
    IF cancel THEN multiError(Append(es, Canceled))
    ELSE IF Len(es) = 0 THEN NilErr ELSE multiError(es)

\* Variant of WaitError: the recorded errors are always wrapped.
WaitErrorAlways(es) == multiError(es)

\* the error returned by Wait
WaitError(es) == IF Len(es) = 0 THEN NilErr ELSE multiError(es)

\* the results returned by Wait
WaitResults(rs) == rs

\* the return statements of Wait and its deferred g.mutex.Unlock()
WaitReturn ==
    /\ mainPc = "wReturn"
    /\ waitResults' = WaitResults(results)
    /\ waitErr' = WaitError(errs)
    /\ mutex' = Free
    /\ mainPc' = "returned"
    /\ UNCHANGED <<ctor, threshold, cancel, errs, results, wg, ctxVars, unitVars,
                   orderVars>>

\* ------------------------------------------------------- environment
\* The owner of the parent context cancels it.
ParentCancel ==
    /\ cancel
    /\ ~parentDone
    /\ parentDone' = TRUE
    /\ UNCHANGED <<ctor, group, hCancels, wCancels, mainPc, unitVars, orderVars,
                   waitVars>>

UnitStep(u) ==
    \/ FReturn(u)
    \/ HandleErrorsLock(u)
    \/ HandleErrorsAppend(u)
    \/ HandleErrorsCancel(u)
    \/ AppendResultsLock(u)
    \/ AppendResultsAppend(u)
    \/ UnitDone(u)

Next ==
    \/ \E by \in {Main} \cup Units : Go(by)
    \/ \E u \in Units : UnitStep(u)
    \/ WaitCall
    \/ WaitUnblock
    \/ WaitLock
    \/ WaitCancel
    \/ WaitReturn
    \/ ParentCancel

Spec == Init /\ [][Next]_vars

\* The steps of Wait once it has been called.
WaitStep == WaitUnblock \/ WaitLock \/ WaitCancel \/ WaitReturn

\* Fair scheduling: a goroutine that can take a step eventually takes one.
\* For a unit this includes the return of its body (every body eventually
\* returns); for the main goroutine the steps of Wait once it is called.
\* Calling Go or Wait at all, and cancelling the parent, are not required.
Fairness ==
    /\ \A u \in Units : WF_vars(UnitStep(u))
    /\ WF_vars(WaitStep)

LiveSpec == Spec /\ Fairness

\* ------------------------------------------------------- vocabulary of the claims
Launched == 1..launched

\* The launched units in the order of their Go calls.
LaunchSeq == [i \in 1..launched |-> i]

\* The body of u has returned.
Returned(u) == pc[u] \notin {"idle", "f"}

\* The launched units whose body returned a non-nil error.
Erroring == {u \in Launched : Returned(u) /\ ret[u].err # Nil}

ErroringSeq == SelectSeq(LaunchSeq, LAMBDA u : u \in Erroring)

\* The errors returned by the units of a sequence of units.
ErrsOf(us) == [i \in DOMAIN us |-> ret[us[i]].err]

\* The concatenation of the result lists returned by a sequence of units.
RECURSIVE ConcatRes(_)
ConcatRes(us) ==
    IF us = << >> THEN << >> ELSE ret[Head(us)].res \o ConcatRes(Tail(us))

Range(s) == {s[i] : i \in DOMAIN s}

Count(x, s) == Cardinality({i \in DOMAIN s : s[i] = x})

SameMultiset(s, t) ==
    /\ Len(s) = Len(t)
    /\ \A x \in Range(s) \cup Range(t) : Count(x, s) = Count(x, t)

\* r occurs in s as a contiguous block.
Contains(s, r) ==
    \E i \in 0..(Len(s) - Len(r)) : SubSeq(s, i + 1, i + Len(r)) = r

\* u holds the mutex inside handleErrors.
InHandleErrors(u) == pc[u] \in {"hAppend", "hCancel"}

\* u has executed the guarded append of handleErrors.
PastErrorAppend(u) ==
    ret[u].err # Nil /\ pc[u] \in {"hCancel", "appendResults", "aAppend", "wgDone", "done"}

\* u has executed the append of appendResults.
PastResultAppend(u) == pc[u] \in {"wgDone", "done"}

\* The place of u among the units that entered handleErrors.
HPos(u) == CHOOSE i \in DOMAIN hOrder : hOrder[i] = u

\* Wait is past g.wg.Wait().
WaitPassed == mainPc \in {"wLock", "wCancel", "wReturn", "returned"}

WaitReturned == mainPc = "returned"

\* ------------------------------------------------------- claims

\* C1: when every launched unit returned a nil error, Wait returns a result
\* sequence that is, as a multiset, the union of the units' result lists, and
\* a nil error; for a plain Group and for every threshold.
C1_AllResultsNilError ==
    (WaitReturned /\ \A u \in Launched : ret[u].err = Nil)
        => /\ SameMultiset(waitResults, ConcatRes(LaunchSeq))
           /\ waitErr = NilErr

C1_Witness ==
    /\ WaitReturned
    /\ threshold >= 1
    /\ launched = MaxUnits
    /\ \A u \in Launched : ret[u].err = Nil /\ ret[u].res # << >>
    /\ Len(waitResults) = 2 * MaxUnits

\* C2: from the moment Wait is past wg.Wait() (so whenever it reads the
\* accumulators or has returned), every launched unit has finished its error
\* handling, its result append and its wg.Done; also after the threshold
\* cancellation has fired.
C2_WaitAfterAllUnits ==
    WaitPassed => \A u \in Launched : pc[u] = "done"

\* Wait is blocked, the threshold cancellation has fired, and a unit launched
\* before Wait is still running its body.
C2_Witness ==
    /\ mainPc = "wgWait"
    /\ hCancels > 0
    /\ \E u \in Launched : pc[u] = "f" /\ launcher[u] = Main

\* C3: with threshold M >= 1 and K > M erroring units, the aggregate returned
\* by Wait unwraps to exactly M errors, those of the first M units that took
\* the mutex in handleErrors, in that order; the derived context is done.
C3_FirstMErrors ==
    (WaitReturned /\ threshold >= 1 /\ Cardinality(Erroring) > threshold)
        => /\ ~waitErr.isNil
           /\ Len(Unwrap(waitErr)) = threshold
           /\ Unwrap(waitErr) = ErrsOf(SubSeq(hOrder, 1, threshold))
           /\ CtxDone

\* Both units returned an error of their own, the unit launched second
\* reported first, and Wait returned its error alone.
C3_Witness ==
    /\ WaitReturned
    /\ threshold = 1
    /\ Cardinality(Erroring) = 2
    /\ hOrder = <<2, 1>>
    /\ Unwrap(waitErr) = <<ErrOf(2)>>

\* C4: with a threshold greater than 0, the number of recorded errors is at
\* most the threshold in every reachable state.
C4_ErrorsCapped ==
    threshold > 0 => Len(errs) <= threshold

\* More units have gone through handleErrors than the threshold admits.
C4_Witness ==
    /\ threshold > 0
    /\ Len(errs) = threshold
    /\ Len(hOrder) > threshold
    /\ \A u \in Launched : ~InHandleErrors(u)

\* C5: a plain Group never invokes a cancel function, and its Wait returns an
\* aggregate that unwraps to exactly one error per erroring unit.
C5_PlainRecordsAll ==
    (~cancel /\ threshold = 0)
        => /\ hCancels = 0 /\ wCancels = 0 /\ ~CtxDone
           /\ (WaitReturned /\ Erroring # {})
                 => /\ ~waitErr.isNil
                    /\ Len(Unwrap(waitErr)) = Cardinality(Erroring)
                    /\ SameMultiset(Unwrap(waitErr), ErrsOf(ErroringSeq))

C5_Witness ==
    /\ ctor.kind = "plain"
    /\ WaitReturned
    /\ Cardinality(Erroring) = MaxUnits
    /\ Len(Unwrap(waitErr)) = MaxUnits

\* C6: a unit's results are appended whether or not it returned an error, also
\* when that error was dropped or the context is done; and its error is
\* recorded, at its place, whenever the cap was not reached when it entered
\* handleErrors.
C6_PartialSuccess ==
    \A u \in Launched :
        /\ PastResultAppend(u) => Contains(results, ret[u].res)
        /\ (PastErrorAppend(u) /\ (threshold = 0 \/ HPos(u) <= threshold))
              => /\ HPos(u) <= Len(errs)
                 /\ errs[HPos(u)] = ret[u].err

\* A unit returned results and an error, its error was dropped because the cap
\* was reached and cancellation had fired, and its results are appended.
C6_Witness ==
    \E u \in Launched :
        /\ pc[u] = "done"
        /\ ret[u].err # Nil
        /\ ret[u].res # << >>
        /\ threshold > 0
        /\ HPos(u) > threshold
        /\ hCancels > 0
        /\ Contains(results, ret[u].res)

\* C7: Wait returns a nil error exactly when no unit returned a non-nil error;
\* otherwise a non-nil aggregate whose components are the recorded errors in
\* recorded order, at least one.
C7_NilIffNoError ==
    WaitReturned
        => /\ waitErr.isNil <=> Erroring = {}
           /\ waitErr.isNil => waitErr = NilErr
           /\ ~waitErr.isNil => Unwrap(waitErr) = errs /\ Len(Unwrap(waitErr)) > 0

C7_Witness ==
    /\ WaitReturned
    /\ threshold = 2
    /\ Cardinality(Erroring) = 1
    /\ ~waitErr.isNil
    /\ Len(Unwrap(waitErr)) = 1

\* C8: with threshold M >= 1, whenever no unit holds the mutex inside
\* handleErrors, M recorded errors imply that the derived context is done.
C8_CancelAtThreshold ==
    (cancel /\ threshold >= 1 /\ Len(errs) = threshold
        /\ \A u \in Launched : ~InHandleErrors(u))
        => CtxDone

\* The threshold is reached and cancel was invoked by handleErrors while
\* another unit is still in its body and Wait has not returned.
C8_Witness ==
    /\ cancel
    /\ Len(errs) = threshold
    /\ hCancels = 1
    /\ wCancels = 0
    /\ ~parentDone
    /\ \A u \in Launched : ~InHandleErrors(u)
    /\ \E u \in Launched : pc[u] = "f"
    /\ ~WaitPassed

\* C9: for a Group of WithErrorsThreshold the derived context is done once
\* Wait has returned, whatever was recorded.
C9_CancelledAfterWait ==
    (cancel /\ WaitReturned) => CtxDone

\* Wait returned with no unit launched and no error; only Wait cancelled.
C9_Witness ==
    /\ cancel
    /\ WaitReturned
    /\ launched = 0
    /\ errs = << >>
    /\ hCancels = 0
    /\ ~parentDone
    /\ wCancels = 1

\* C10: with the parent context live and Wait not yet past wg.Wait(), the
\* derived context is done only if the number of recorded errors equals the
\* threshold.
C10_NoCancelBelowThreshold ==
    (cancel /\ ~parentDone /\ ~WaitPassed /\ CtxDone) => Len(errs) = threshold

\* The derived context is done before Wait is past wg.Wait(), with the parent
\* live: both units have reported an error under a threshold of 2.
C10_Witness ==
    /\ cancel
    /\ ~parentDone
    /\ CtxDone
    /\ threshold = 2
    /\ Len(errs) = 2
    /\ \A u \in Launched : pc[u] = "done"
    /\ mainPc = "wgWait"

\* u has left handleErrors.
PastHandleErrors(u) ==
    ret[u].err # Nil /\ pc[u] \in {"appendResults", "aAppend", "wgDone", "done"}

\* C11 as stated: over any run handleErrors invokes cancel at most once (only
\* in the call whose append reached the threshold).
C11_Original == hCancels <= 1

\* C11 as amended: handleErrors invokes cancel in every call that ends with
\* len(errs) equal to the threshold, that is in the call whose append reached
\* it and in every later call, whose error is dropped; never before the
\* threshold is reached, and never for a plain Group.
C11_CancelPerCallAtThreshold ==
    hCancels =
        IF cancel
        THEN Cardinality({u \in Launched : PastHandleErrors(u) /\ HPos(u) >= threshold})
        ELSE 0

\* Threshold 1, two erroring units: the second call dropped its error and
\* invoked cancel again.
C11_Witness ==
    /\ threshold = 1
    /\ Len(errs) = 1
    /\ Len(hOrder) = 2
    /\ hCancels = 2

\* What WithErrorsThreshold returns: a panic and no Group for an argument
\* below 1; otherwise a Group with the given threshold and a cancel function,
\* empty until a unit is launched.  No Group with a cancel function has
\* threshold 0.
ConstructionContract ==
    /\ (ctor.kind = "threshold" /\ ctor.arg < 1)
          => /\ mainPc = "panicked"
             /\ ~cancel
             /\ launched = 0
             /\ hCancels = 0 /\ wCancels = 0 /\ ~parentDone
    /\ (ctor.kind = "threshold" /\ ctor.arg >= 1)
          => /\ mainPc # "panicked"
             /\ cancel
             /\ threshold = ctor.arg
             /\ launched = 0 => (errs = << >> /\ results = << >>)
    /\ cancel => threshold >= 1

\* Wait has invoked, or skipped, its cancel.
WaitCancelPassed == mainPc \in {"wReturn", "returned"}

\* C12 as stated: the construction contract, and the derived context is not
\* done as long as the parent is live and no error has been recorded.
C12_Original ==
    /\ ConstructionContract
    /\ (cancel /\ ~parentDone /\ errs = << >>) => ~CtxDone

\* C12 as amended: the construction contract, and the derived context is not
\* done as long as the parent is live, no error has been recorded and Wait
\* has not yet invoked cancel.
C12_Construction ==
    /\ ConstructionContract
    /\ (cancel /\ ~parentDone /\ errs = << >> /\ ~WaitCancelPassed) => ~CtxDone

\* All units of a threshold Group have reported without error, Wait holds the
\* mutex and is about to cancel: the derived context is still live.
C12_Witness ==
    /\ ctor.kind = "threshold"
    /\ ctor.arg = MaxThreshold
    /\ threshold = MaxThreshold
    /\ launched = MaxUnits
    /\ errs = << >>
    /\ ~parentDone
    /\ mainPc = "wCancel"
    /\ ~CtxDone

\* A step that invokes the cancel function.
CancelInvoked == hCancels' + wCancels' > hCancels + wCancels

\* C13: a done context stays done; a step that invokes cancel, for the first
\* time or again, changes neither errs nor results; and what Wait returns is
\* results and the errors that units handed to handleErrors, in that order,
\* with no component for the cancellation itself.
C13_CancelIdempotent ==
    /\ [][CtxDone => CtxDone']_vars
    /\ [][CancelInvoked => (errs' = errs /\ results' = results)]_vars
    /\ [](WaitReturned
            => /\ waitResults = results
               /\ IF waitErr.isNil THEN errs = << >> ELSE Unwrap(waitErr) = errs
               /\ Len(errs) <= Len(hOrder)
               /\ errs = ErrsOf(SubSeq(hOrder, 1, Len(errs))))

\* cancel was invoked by handleErrors at the threshold and again by Wait.
C13_Witness ==
    /\ WaitReturned
    /\ ~parentDone
    /\ hCancels >= 1
    /\ wCancels = 1
    /\ Len(Unwrap(waitErr)) = threshold
    /\ results # << >>

\* The error of u is in errs.
ErrorRecorded(u) ==
    PastErrorAppend(u) /\ (threshold = 0 \/ HPos(u) <= threshold)

\* The error of u is in errs and its results are not yet in results.
HalfApplied(u) == ErrorRecorded(u) /\ ~PastResultAppend(u)

\* C14 as stated: whenever the report of a unit is half applied, that unit
\* holds the mutex.
C14_Original ==
    \A u \in Launched : HalfApplied(u) => mutex = u

\* C14 as amended: the report of a unit is applied in two critical sections,
\* and Wait, the only reader of the accumulators, never sees it half applied:
\* once Wait is past wg.Wait() no report is half applied.
C14_WaitSeesWholeReports ==
    WaitPassed => \A u \in Launched : ~HalfApplied(u)

\* Wait holds the mutex; a unit with results and a recorded error has both
\* applied.
C14_Witness ==
    /\ mutex = Main
    /\ \E u \in Launched :
          /\ ErrorRecorded(u)
          /\ ret[u].res # << >>
          /\ PastResultAppend(u)
          /\ Contains(results, ret[u].res)

\* C15: under fair scheduling, with every body returning, every launched unit
\* eventually completes its report and its wg.Done, and a Wait that was
\* called eventually returns.
C15_Terminates ==
    /\ \A u \in Units : (pc[u] = "f") ~> (pc[u] = "done")
    /\ (mainPc = "wgWait") ~> WaitReturned

\* Wait has returned after every unit went through both critical sections.
C15_Witness ==
    /\ WaitReturned
    /\ threshold >= 1
    /\ launched = MaxUnits
    /\ Len(hOrder) = MaxUnits
    /\ Len(aOrder) = MaxUnits
    /\ wg = 0
    /\ mutex = Free

\* s is a prefix of t.
IsPrefix(s, t) == Len(s) <= Len(t) /\ SubSeq(t, 1, Len(s)) = s

\* C16: in every step the old results is a prefix of the new results and the
\* old errs a prefix of the new errs.
C16_AppendOnly ==
    [][IsPrefix(results, results') /\ IsPrefix(errs, errs')]_vars

\* Both accumulators were appended to by every unit, cancellation fired at the
\* threshold and Wait has run.
C16_Witness ==
    /\ WaitReturned
    /\ threshold = MaxThreshold
    /\ Len(errs) = MaxThreshold
    /\ hCancels >= 1
    /\ Len(results) = 2 * MaxUnits
    /\ waitResults = results

\* The units that have executed the append of appendResults, in the order in
\* which they took the mutex there.
Appended == SelectSeq(aOrder, PastResultAppend)

\* C18: results is at every moment the concatenation of the whole lists of
\* the units that appended, in the order in which they took the mutex in
\* appendResults; so is the sequence Wait returns.
C18_ContiguousBlocks ==
    /\ results = ConcatRes(Appended)
    /\ WaitReturned => waitResults = ConcatRes(aOrder)

\* The unit launched second appended first; each list is one block.
C18_Witness ==
    /\ WaitReturned
    /\ aOrder = <<2, 1>>
    /\ waitResults = <<2, Shared, 1, Shared>>

\* u is between a Lock and the Unlock deferred after it.
InCritical(u) == pc[u] \in {"hAppend", "hCancel", "aAppend"}

\* The main goroutine is between the Lock of Wait and its deferred Unlock.
MainInCritical == mainPc \in {"wCancel", "wReturn"}

\* The goroutines inside a critical section.
Holders ==
    {u \in Launched : InCritical(u)} \cup (IF MainInCritical THEN {Main} ELSE {})

\* u takes a step.
Moves(u) == pc'[u] # pc[u]

\* C17: at most one goroutine is inside a critical section, and it is the
\* holder of the mutex; errs is written only by the holder inside
\* handleErrors, results only by the holder inside appendResults; Wait reads
\* both as the holder; Go touches neither the accumulators nor the mutex.
C17_MutexDiscipline ==
    /\ [](/\ Cardinality(Holders) <= 1
          /\ \A h \in Holders : mutex = h
          /\ Holders = {} => mutex = Free)
    /\ [][errs' # errs
            => \E u \in Launched : pc[u] = "hAppend" /\ mutex = u /\ Moves(u)]_vars
    /\ [][results' # results
            => \E u \in Launched : pc[u] = "aAppend" /\ mutex = u /\ Moves(u)]_vars
    /\ [][(mainPc = "wReturn" /\ mainPc' = "returned") => mutex = Main]_vars
    /\ [][launched' # launched
            => (errs' = errs /\ results' = results /\ mutex' = mutex)]_vars

\* One unit is appending its results while the other waits for the mutex in
\* handleErrors and Wait is blocked.
C17_Witness ==
    /\ mainPc = "wgWait"
    /\ \E u, v \in Launched :
          /\ pc[u] = "aAppend"
          /\ mutex = u
          /\ pc[v] = "handleErrors"

\* The units launched from inside the body of another unit.
Nested == {u \in Launched : launcher[u] # Main}

\* The launched units that have not run their wg.Done.
Outstanding == {u \in Launched : pc[u] # "done"}

\* C19: the counter equals the number of launched units that have not run
\* wg.Done, so it is positive whenever a running body can call Go; and once
\* Wait is past wg.Wait() every nested unit is done, with its results in
\* results and its error, unless dropped at the cap, at its place in errs;
\* Wait returns them.
C19_NestedAwaited ==
    /\ wg = Cardinality(Outstanding)
    /\ \A u \in Launched : pc[u] = "f" => wg >= 1
    /\ \A u \in Nested :
          /\ WaitPassed
                => /\ pc[u] = "done"
                   /\ Contains(results, ret[u].res)
                   /\ ErrorRecorded(u) => errs[HPos(u)] = ret[u].err
          /\ WaitReturned
                => /\ Contains(waitResults, ret[u].res)
                   /\ ErrorRecorded(u) => Unwrap(waitErr)[HPos(u)] = ret[u].err

\* Wait is blocked, the launching unit is done, and the unit it launched from
\* its body is still running.
C19_Witness ==
    /\ mainPc = "wgWait"
    /\ launched = 2
    /\ launcher[2] = 1
    /\ pc[1] = "done"
    /\ pc[2] = "f"
    /\ wg = 1

====
